---- MODULE Spec2Model ----
(***************************************************************************)
(* A model of src/addon/validation.cpp: add-on file name validation, the   *)
(* binary escaping codec, content hashes and the recursive tree difference *)
(* that builds update packs.                                               *)
(*                                                                         *)
(* Strings are sequences of byte values 0..255.  A config node is a record *)
(* [name, file, dir]: its "name" attribute and its "file" and "dir"        *)
(* children in insertion order; a [file] child is a record                 *)
(* [name, hash, contents], an absent attribute reading as the empty string *)
(* (config::attribute_value::str()).                                       *)
(***************************************************************************)
EXTENDS Integers, Sequences, FiniteSets

VARIABLES
    pc,        \* which operation produced the current state
    str,       \* codec: the input of encode_binary
    encoded,   \* codec: encode_binary(str)
    decoded,   \* codec: unencode_binary(encoded)
    name,      \* addon_filename_legal: its argument
    legal,     \* addon_filename_legal: its result
    from,      \* the old tree (also the single tree of the one-tree operations)
    to,        \* the new tree
    pack,      \* the output config of write_hashlist / write_difference / make_updatepack
    badlist,   \* the accumulator after a validation call (NoList: none was passed)
    arg,       \* the accumulator as it was passed to the validation call
    flag,      \* the with_content flag passed to write_difference
    ret        \* the boolean an operation returned

vars == <<pc, str, encoded, decoded, name, legal, from, to, pack, badlist, arg, flag, ret>>

\* ------------------------------------------------------------------ bounds
MaxLen == 4
MaxNameLen == 4
MaxTreeNodes == 4
MaxPairNodes == 4

\* ----------------------------------------------------------------- helpers
RECURSIVE SeqsUpTo(_, _)
SeqsUpTo(S, n) ==
    IF n = 0 THEN {<<>>}
    ELSE LET shorter == SeqsUpTo(S, n - 1)
         IN  shorter \cup {Append(s, x) : s \in {t \in shorter : Len(t) = n - 1}, x \in S}

\* std::string(n, '\0'): n zero bytes.
RECURSIVE zeros(_)
zeros(n) == IF n = 0 THEN <<>> ELSE Append(zeros(n - 1), 0)

\* ============================================================ binary codec
escape_char == 1

\* A faulty needs_escaping: the escape byte itself is not escaped.
needs_escaping_noesc(c) == c \in {0, 13, 254}

\* needs_escaping: NUL, the escape byte, carriage return, 0xFE.
needs_escaping(c) == c \in {0, escape_char, 13, 254}

\* The loop of encode_binary: j is the read position, res the output buffer
\* (resized by one for each escaped byte), n the write position.
RECURSIVE encode_loop(_, _, _, _)
encode_loop(s, j, res, n) ==
    IF j > Len(s) THEN res
    ELSE IF needs_escaping(s[j])
         THEN LET grown == Append(res, 0)
              IN  encode_loop(s, j + 1,
                      [grown EXCEPT ![n + 1] = escape_char, ![n + 2] = (s[j] + 1) % 256],
                      n + 2)
         ELSE encode_loop(s, j + 1, [res EXCEPT ![n + 1] = s[j]], n + 1)

encode_binary(s) == encode_loop(s, 1, zeros(Len(s)), 0)

\* The loop of unencode_binary; the result is <<res, n>>.
RECURSIVE unencode_loop(_, _, _, _)
unencode_loop(s, j, res, n) ==
    IF j > Len(s) THEN <<res, n>>
    ELSE IF s[j] = escape_char /\ j + 1 <= Len(s)
         THEN unencode_loop(s, j + 2, [res EXCEPT ![n + 1] = (s[j + 1] + 255) % 256], n + 1)
         ELSE unencode_loop(s, j + 1, [res EXCEPT ![n + 1] = s[j]], n + 1)

unencode_binary(s) ==
    LET r == unencode_loop(s, 1, zeros(Len(s)), 0)
    IN  SubSeq(r[1], 1, r[2])

\* ====================================================== file name legality
\* "NUL", "CON", "AUX", "PRN", "CONIN$", "CONOUT$", "COM1".."COM9", "LPT1".."LPT9"
dos_device_names ==
    { <<78, 85, 76>>, <<67, 79, 78>>, <<65, 85, 88>>, <<80, 82, 78>>,
      <<67, 79, 78, 73, 78, 36>>, <<67, 79, 78, 79, 85, 84, 36>> }
    \cup { <<67, 79, 77, d>> : d \in 49..57 }
    \cup { <<76, 80, 84, d>> : d \in 49..57 }

\* boost::algorithm::to_upper_copy / to_lower_copy under std::locale::classic():
\* only the ASCII letters change.
to_upper_copy(s) == [i \in 1..Len(s) |-> IF s[i] \in 97..122 THEN s[i] - 32 ELSE s[i]]

to_lower_copy(s) == [i \in 1..Len(s) |-> IF s[i] \in 65..90 THEN s[i] + 32 ELSE s[i]]

\* std::string::find(char): the first position (1-based) of c, 0 for npos.
find_char(s, c) ==
    IF \E i \in 1..Len(s) : s[i] = c
    THEN CHOOSE i \in 1..Len(s) : s[i] = c /\ \A k \in 1..(i - 1) : s[k] # c
    ELSE 0

\* name.find("..") != npos
contains_dotdot(s) == \E i \in 1..(Len(s) - 1) : s[i] = 46 /\ s[i + 1] = 46

\* A faulty stem: the name up to its last '.', as filesystem::base_name() gives it.
stem_of_last_dot(s) ==
    IF \E i \in 1..Len(s) : s[i] = 46
    THEN SubSeq(s, 1, (CHOOSE i \in 1..Len(s) : s[i] = 46 /\ \A k \in (i + 1)..Len(s) : s[k] # 46) - 1)
    ELSE s

\* name.substr(0, name.find('.'))
stem_of(s) == IF find_char(s, 46) = 0 THEN s ELSE SubSeq(s, 1, find_char(s, 46) - 1)

addon_filename_ucs4char_illegal(c) ==
    \/ c \in {32, 34, 42, 47, 58, 60, 62, 63, 92, 124, 126, 127}
    \/ c < 32
    \/ (c >= 128 /\ c < 160)
    \/ (c >= 55296 /\ c < 57344)

\* unicode_cast<std::u32string>(std::string): UTF-8 to code points, stopping at the
\* first ill-formed sequence.
utf8_size(b) ==
    IF b < 128 THEN 1
    ELSE IF b \in 192..223 THEN 2
    ELSE IF b \in 224..239 THEN 3
    ELSE IF b \in 240..247 THEN 4
    ELSE 0

RECURSIVE utf8_to_ucs4(_)
utf8_to_ucs4(s) ==
    IF s = <<>> THEN <<>>
    ELSE LET size == utf8_size(s[1])
         IN  IF size = 0 \/ Len(s) < size \/ \E k \in 2..size : s[k] \notin 128..191
             THEN <<>>
             ELSE LET cp == CASE size = 1 -> s[1]
                              [] size = 2 -> (s[1] % 32) * 64 + (s[2] % 64)
                              [] size = 3 -> (s[1] % 16) * 4096 + (s[2] % 64) * 64 + (s[3] % 64)
                              [] size = 4 -> (s[1] % 8) * 262144 + (s[2] % 64) * 4096
                                                + (s[3] % 64) * 64 + (s[4] % 64)
                  IN  <<cp>> \o utf8_to_ucs4(SubSeq(s, size + 1, Len(s)))

\* unicode_cast<std::string>(std::u32string): the shortest UTF-8 form of each code point.
RECURSIVE ucs4_to_utf8(_)
ucs4_to_utf8(u) ==
    IF u = <<>> THEN <<>>
    ELSE LET c == u[1]
             bytes == IF c < 128 THEN <<c>>
                      ELSE IF c < 2048 THEN <<192 + (c \div 64), 128 + (c % 64)>>
                      ELSE IF c < 65536
                           THEN <<224 + (c \div 4096), 128 + ((c \div 64) % 64), 128 + (c % 64)>>
                           ELSE <<240 + (c \div 262144), 128 + ((c \div 4096) % 64),
                                  128 + ((c \div 64) % 64), 128 + (c % 64)>>
         IN  bytes \o ucs4_to_utf8(Tail(u))

addon_filename_legal(s) ==
    IF s = <<>> \/ s[Len(s)] = 46 \/ contains_dotdot(s) \/ Len(s) > 255
    THEN FALSE
    ELSE IF to_upper_copy(stem_of(s)) \in dos_device_names
         THEN FALSE
         ELSE LET name_ucs4 == utf8_to_ucs4(s)
              IN  IF s # ucs4_to_utf8(name_ucs4)
                  THEN FALSE
                  ELSE \A i \in 1..Len(name_ucs4) : ~addon_filename_ucs4char_illegal(name_ucs4[i])

\* ============================================================ config trees
\* config("name", n): a node with a name and no children.
config_name(n) == [name |-> n, file |-> <<>>, dir |-> <<>>]

\* A [file] child with its three attributes.
file_node(n, h, c) == [name |-> n, hash |-> h, contents |-> c]

\* config::add_child below the node reached from t by the [dir] indices p.
RECURSIVE add_child_at(_, _, _, _)
add_child_at(t, p, tag, child) ==
    IF p = <<>>
    THEN [t EXCEPT ![tag] = Append(@, child)]
    ELSE [t EXCEPT !.dir[p[1]] = add_child_at(@, Tail(p), tag, child)]

\* The [dir] index paths of the nodes of t, the root's being <<>>.
RECURSIVE NodePaths(_)
NodePaths(t) ==
    {<<>>} \cup UNION { { <<i>> \o p : p \in NodePaths(t.dir[i]) } : i \in 1..Len(t.dir) }

\* The number of [file] and [dir] nodes below the root of t.
RECURSIVE CountNodes(_)
CountNodes(t) ==
    LET RECURSIVE sum(_)
        sum(i) == IF i > Len(t.dir) THEN 0 ELSE 1 + CountNodes(t.dir[i]) + sum(i + 1)
    IN  Len(t.file) + sum(1)

\* config::find_child("dir", "name", value): the index of the first [dir] child
\* whose name is value, 0 when there is none (the invalid config).
find_child(cfg, value) ==
    IF \E i \in 1..Len(cfg.dir) : cfg.dir[i].name = value
    THEN CHOOSE i \in 1..Len(cfg.dir) :
            cfg.dir[i].name = value /\ \A k \in 1..(i - 1) : cfg.dir[k].name # value
    ELSE 0

\* ========================================================== content hashes
\* utils::md5(contents).base64_digest(): a fixed digest of the contents, never empty
\* (here one letter chosen by the byte sum).
md5_base64_digest(contents) ==
    LET RECURSIVE sum(_)
        sum(i) == IF i > Len(contents) THEN 0 ELSE contents[i] + sum(i + 1)
    IN  <<65 + (sum(1) % 26)>>

file_hash_raw(file) == md5_base64_digest(file.contents)

file_hash(file) == IF file.hash = <<>> THEN file_hash_raw(file) ELSE file.hash

\* A faulty comp_file_hash: the hashes are not compared.
comp_file_hash_name_only(file_a, file_b) == file_a.name = file_b.name

comp_file_hash(file_a, file_b) ==
    file_a.name = file_b.name /\ file_hash(file_a) = file_hash(file_b)

\* A faulty hashlist entry: file_hash, which prefers the cached hash attribute.
hashlist_file_cached(f) == [name |-> f.name, hash |-> file_hash(f), contents |-> <<>>]

\* The [file] child write_hashlist adds for f.
hashlist_file(f) == [name |-> f.name, hash |-> file_hash_raw(f), contents |-> <<>>]

\* write_hashlist into an empty config: the hashlist it leaves.
RECURSIVE write_hashlist(_)
write_hashlist(data) ==
    [name |-> data.name,
     file |-> [i \in 1..Len(data.file) |-> hashlist_file(data.file[i])],
     dir  |-> [i \in 1..Len(data.dir) |-> write_hashlist(data.dir[i])]]

\* ========================================================= tree difference
\* The inner loop of contains_hashlist and write_difference: some [file] of
\* origin has the name and the hash of f.
file_found(origin, f) == \E j \in 1..Len(origin.file) : comp_file_hash(f, origin.file[j])

\* The directory a [dir] child d of "to" is compared with: the first [dir] of
\* origin with its name, else config("name", d["name"]).
origin_dir_of(origin, d) ==
    IF find_child(origin, d.name) # 0
    THEN origin.dir[find_child(origin, d.name)]
    ELSE config_name(d.name)

\* A faulty contains_hashlist: the subdirectories are not looked into.
contains_hashlist_files_only(origin, target) ==
    \A i \in 1..Len(target.file) : file_found(origin, target.file[i])

RECURSIVE contains_hashlist(_, _)
contains_hashlist(origin, target) ==
    /\ \A i \in 1..Len(target.file) : file_found(origin, target.file[i])
    /\ \A i \in 1..Len(target.dir) :
           contains_hashlist(origin_dir_of(origin, target.dir[i]), target.dir[i])

\* The [file] child write_difference adds for f.
difference_file(f, with_content) ==
    [name |-> f.name,
     hash |-> IF with_content THEN file_hash(f) ELSE <<>>,
     contents |-> IF with_content THEN f.contents ELSE <<>>]

\* A faulty attachment: the subdirectory is added whether or not it changed.
attach_dir_always(children, sub) == Append(children, sub.pack)

\* pack.add_child("dir", dir) in write_difference: only when the recursive call
\* reported changes.
attach_dir(children, sub) == IF sub.has_changes THEN Append(children, sub.pack) ELSE children

\* write_difference into an empty config: <<pack, has_changes>> as a record.
RECURSIVE write_difference(_, _, _)
write_difference(origin, target, with_content) ==
    LET RECURSIVE file_loop(_, _)
        \* the first loop from index i on: <<[file] children added, has_changes>>
        file_loop(i, acc) ==
            IF i > Len(target.file) THEN acc
            ELSE IF ~file_found(origin, target.file[i])
                 THEN file_loop(i + 1,
                          [file |-> Append(acc.file, difference_file(target.file[i], with_content)),
                           has_changes |-> TRUE])
                 ELSE file_loop(i + 1, acc)
        files == file_loop(1, [file |-> <<>>, has_changes |-> FALSE])
        RECURSIVE dir_loop(_, _)
        dir_loop(i, acc) ==
            IF i > Len(target.dir) THEN acc
            ELSE LET d == target.dir[i]
                     sub == write_difference(origin_dir_of(origin, d), d, with_content)
                 IN  dir_loop(i + 1,
                         [dir |-> attach_dir(acc.dir, sub),
                          has_changes |-> acc.has_changes \/ sub.has_changes])
        dirs == dir_loop(1, [dir |-> <<>>, has_changes |-> files.has_changes])
    IN  [pack |-> [name |-> target.name, file |-> files.file, dir |-> dirs.dir],
         has_changes |-> dirs.has_changes]

\* make_updatepack into an empty config: its [removelist] and [addlist] children.
make_updatepack(origin, target) ==
    [removelist |-> write_difference(target, origin, FALSE).pack,
     addlist    |-> write_difference(origin, target, TRUE).pack]

\* ========================================================= tree validation
\* The std::vector<std::string>* badlist argument: a null pointer, or a list.
NoList == [null |-> TRUE, list |-> <<>>]

List(l) == [null |-> FALSE, list |-> l]

\* return badlist ? badlist->empty() : true;
final_result(bl) == IF bl.null THEN TRUE ELSE bl.list = <<>>

\* check_names_legal_internal: [ret, badlist], badlist being the accumulator as
\* the call leaves it.
RECURSIVE check_names_legal_internal(_, _, _)
check_names_legal_internal(dir, prefix, bl) ==
    LET current_prefix == IF prefix # <<>> THEN Append(prefix, 47) ELSE prefix
        RECURSIVE file_loop(_, _)
        file_loop(i, acc) ==
            IF i > Len(dir.file) THEN acc
            ELSE LET filename == dir.file[i].name
                 IN  IF ~addon_filename_legal(filename)
                     THEN IF ~acc.badlist.null
                          THEN file_loop(i + 1,
                                   [acc EXCEPT !.badlist.list = Append(@, current_prefix \o filename)])
                          ELSE [acc EXCEPT !.returned = TRUE]
                     ELSE file_loop(i + 1, acc)
        files == file_loop(1, [returned |-> FALSE, badlist |-> bl])
        RECURSIVE dir_loop(_, _)
        dir_loop(i, acc) ==
            IF i > Len(dir.dir) THEN acc
            ELSE LET dirname == dir.dir[i].name
                     new_prefix == current_prefix \o dirname
                     bad == ~addon_filename_legal(dirname)
                 IN  IF bad /\ acc.badlist.null
                     THEN [acc EXCEPT !.returned = TRUE]
                     ELSE LET bl1 == IF bad
                                     THEN [acc.badlist EXCEPT !.list = Append(@, Append(new_prefix, 47))]
                                     ELSE acc.badlist
                              sub == check_names_legal_internal(dir.dir[i], new_prefix, bl1)
                          IN  IF ~sub.ret /\ bl1.null
                              THEN [acc EXCEPT !.returned = TRUE]
                              ELSE dir_loop(i + 1, [acc EXCEPT !.badlist = sub.badlist])
    IN  IF files.returned THEN [ret |-> FALSE, badlist |-> bl]
        ELSE LET dirs == dir_loop(1, files)
             IN  IF dirs.returned THEN [ret |-> FALSE, badlist |-> bl]
                 ELSE [ret |-> final_result(dirs.badlist), badlist |-> dirs.badlist]

check_names_legal(dir, bl) == check_names_legal_internal(dir, <<>>, bl)

\* A faulty bookkeeping: the entry is never marked as printed.
mark_printed_never(entry) == entry

\* filenames[lowercase] = make_pair(true, std::string())
mark_printed(entry) == [entry EXCEPT !.printed = TRUE, !.original = <<>>]

\* One child of a level in check_case_insensitive_duplicates_internal: the emplace
\* into the map "filenames" (a set of entries [key, printed, original]) and what
\* follows a failed insertion.
visit_child(acc, filename, prefix) ==
    LET lowercase == to_lower_copy(filename)
        with_prefix == prefix \o filename
        inserted == ~\E e \in acc.filenames : e.key = lowercase
    IN  IF inserted
        THEN [acc EXCEPT !.filenames =
                 @ \cup {[key |-> lowercase, printed |-> FALSE, original |-> with_prefix]}]
        ELSE IF ~acc.badlist.null
             THEN LET entry == CHOOSE e \in acc.filenames : e.key = lowercase
                  IN  IF ~entry.printed
                      THEN [acc EXCEPT
                               !.badlist.list = Append(Append(@, entry.original), with_prefix),
                               !.filenames = (@ \ {entry}) \cup {mark_printed(entry)}]
                      ELSE [acc EXCEPT !.badlist.list = Append(@, with_prefix)]
             ELSE [acc EXCEPT !.returned = TRUE]

RECURSIVE check_case_insensitive_duplicates_internal(_, _, _)
check_case_insensitive_duplicates_internal(dir, prefix, bl) ==
    LET RECURSIVE file_loop(_, _)
        file_loop(i, acc) ==
            IF i > Len(dir.file) \/ acc.returned THEN acc
            ELSE file_loop(i + 1, visit_child(acc, dir.file[i].name, prefix))
        files == file_loop(1, [returned |-> FALSE, filenames |-> {}, badlist |-> bl])
        RECURSIVE dir_loop(_, _)
        dir_loop(i, acc) ==
            IF i > Len(dir.dir) \/ acc.returned THEN acc
            ELSE LET filename == dir.dir[i].name
                     seen == visit_child(acc, filename, prefix)
                 IN  IF seen.returned THEN seen
                     ELSE LET sub == check_case_insensitive_duplicates_internal(
                                         dir.dir[i], Append(prefix \o filename, 47), seen.badlist)
                          IN  IF ~sub.ret /\ seen.badlist.null
                              THEN [seen EXCEPT !.returned = TRUE]
                              ELSE dir_loop(i + 1, [seen EXCEPT !.badlist = sub.badlist])
        dirs == dir_loop(1, files)
    IN  IF dirs.returned THEN [ret |-> FALSE, badlist |-> bl]
        ELSE [ret |-> final_result(dirs.badlist), badlist |-> dirs.badlist]

check_case_insensitive_duplicates(dir, bl) ==
    check_case_insensitive_duplicates_internal(dir, <<>>, bl)

\* ======================================================== the state machine
\* The bytes strings are drawn from: the escaped ones, their neighbours, a letter.
Bytes == {0, 1, 2, 13, 14, 253, 254, 255, 65}

\* 'C' 'c' 'O' 'o' 'N' 'n' '.' 'x'
NameChars == {67, 99, 79, 111, 78, 110, 46, 120}

\* Each reserved name as written, in lower case, and with only its first letter lowered.
DeviceSpellings ==
    UNION { {d, to_lower_copy(d), [d EXCEPT ![1] = to_lower_copy(<<d[1]>>)[1]]} : d \in dos_device_names }

\* "", ".x", ".x.x", ".", "..x", "x", ":", " x", ".~"
Suffixes ==
    { <<>>, <<46, 120>>, <<46, 120, 46, 120>>, <<46>>, <<46, 46, 120>>, <<120>>, <<58>>,
      <<32, 120>>, <<46, 126>> }

\* U+00E9, a lone lead byte, an overlong NUL, U+0085, U+20AC, a lone continuation byte,
\* and 256 times 'x'.
OtherNames ==
    { <<195, 169>>, <<195>>, <<192, 128>>, <<194, 133>>, <<226, 130, 172>>, <<128>>,
      [i \in 1..256 |-> 120] }

NameInputs ==
    SeqsUpTo(NameChars, MaxNameLen) \cup {d \o x : d \in DeviceSpellings, x \in Suffixes}
        \cup OtherNames

\* [file] children of the trees that are compared: name "x" or "y", an absent or a
\* cached hash, contents <<1>> or <<2>>.  The cached hash of the third is the digest
\* of <<2>>, not of its own contents.
DiffFiles ==
    { file_node(<<120>>, <<>>, <<1>>), file_node(<<120>>, <<>>, <<2>>),
      file_node(<<120>>, md5_base64_digest(<<2>>), <<1>>), file_node(<<121>>, <<>>, <<1>>) }

\* "a", "b"
DirNames == {<<97>>, <<98>>}

\* "a", "A", "~"
ValidateNames == {<<97>>, <<65>>, <<126>>}

\* The accumulators a validation call is given: none, an empty list, a list that
\* already holds the entry "s".
Accumulators == {NoList, List(<<>>), List(<< <<115>> >>)}

Root == config_name(<<>>)

InitCommon ==
    /\ pc = "start"
    /\ str = <<>> /\ encoded = <<>> /\ decoded = <<>>
    /\ name = <<>> /\ legal = FALSE
    /\ from = Root /\ to = Root /\ pack = Root
    /\ badlist = NoList /\ arg = NoList /\ flag = FALSE /\ ret = FALSE

\* ---- the codec
InitCodec ==
    /\ pc = "start"
    /\ str \in SeqsUpTo(Bytes, MaxLen)
    /\ encoded = <<>> /\ decoded = <<>>
    /\ name = <<>> /\ legal = FALSE
    /\ from = Root /\ to = Root /\ pack = Root
    /\ badlist = NoList /\ arg = NoList /\ flag = FALSE /\ ret = FALSE

Encode ==
    /\ pc = "start"
    /\ encoded' = encode_binary(str)
    /\ pc' = "encode_binary"
    /\ UNCHANGED <<str, decoded, name, legal, from, to, pack, badlist, arg, flag, ret>>

Unencode ==
    /\ pc = "encode_binary"
    /\ decoded' = unencode_binary(encoded)
    /\ pc' = "unencode_binary"
    /\ UNCHANGED <<str, encoded, name, legal, from, to, pack, badlist, arg, flag, ret>>

NextCodec == Encode \/ Unencode

SpecCodec == InitCodec /\ [][NextCodec]_vars

\* ---- file names
InitName ==
    /\ pc = "start"
    /\ name \in NameInputs
    /\ str = <<>> /\ encoded = <<>> /\ decoded = <<>> /\ legal = FALSE
    /\ from = Root /\ to = Root /\ pack = Root
    /\ badlist = NoList /\ arg = NoList /\ flag = FALSE /\ ret = FALSE

AddonFilenameLegal ==
    /\ pc = "start"
    /\ legal' = addon_filename_legal(name)
    /\ pc' = "addon_filename_legal"
    /\ UNCHANGED <<str, encoded, decoded, name, from, to, pack, badlist, arg, flag, ret>>

NextName == AddonFilenameLegal

SpecName == InitName /\ [][NextName]_vars

\* ---- building trees: the caller's add_child calls
AddFile(side, p, f) ==
    /\ pc = "start"
    /\ from' = IF side \in {"from", "both"} THEN add_child_at(from, p, "file", f) ELSE from
    /\ to' = IF side \in {"to", "both"} THEN add_child_at(to, p, "file", f) ELSE to
    /\ UNCHANGED <<pc, str, encoded, decoded, name, legal, pack, badlist, arg, flag, ret>>

AddDir(side, p, n) ==
    /\ pc = "start"
    /\ from' = IF side \in {"from", "both"} THEN add_child_at(from, p, "dir", config_name(n)) ELSE from
    /\ to' = IF side \in {"to", "both"} THEN add_child_at(to, p, "dir", config_name(n)) ELSE to
    /\ UNCHANGED <<pc, str, encoded, decoded, name, legal, pack, badlist, arg, flag, ret>>

\* ---- validating one tree (from)
CheckNamesLegal ==
    /\ pc = "start"
    /\ \E bl \in Accumulators :
          LET r == check_names_legal(from, bl)
          IN  arg' = bl /\ badlist' = r.badlist /\ ret' = r.ret
    /\ pc' = "check_names_legal"
    /\ UNCHANGED <<str, encoded, decoded, name, legal, from, to, pack, flag>>

CheckCaseInsensitiveDuplicates ==
    /\ pc = "start"
    /\ \E bl \in Accumulators :
          LET r == check_case_insensitive_duplicates(from, bl)
          IN  arg' = bl /\ badlist' = r.badlist /\ ret' = r.ret
    /\ pc' = "check_case_insensitive_duplicates"
    /\ UNCHANGED <<str, encoded, decoded, name, legal, from, to, pack, flag>>

AddNamedFile ==
    \E p \in NodePaths(from), n \in ValidateNames :
        CountNodes(from) < MaxTreeNodes /\ AddFile("from", p, file_node(n, <<>>, <<>>))

AddNamedDir ==
    \E p \in NodePaths(from), n \in ValidateNames :
        CountNodes(from) < MaxTreeNodes /\ AddDir("from", p, n)

NextValidate ==
    AddNamedFile \/ AddNamedDir \/ CheckNamesLegal \/ CheckCaseInsensitiveDuplicates

SpecValidate == InitCommon /\ [][NextValidate]_vars

\* ---- hashing and comparing trees
WriteHashlist ==
    /\ pc = "start"
    /\ pack' = write_hashlist(from)
    /\ pc' = "write_hashlist"
    /\ UNCHANGED <<str, encoded, decoded, name, legal, from, to, badlist, arg, flag, ret>>

ContainsHashlist ==
    /\ pc = "start"
    /\ ret' = contains_hashlist(from, to)
    /\ pc' = "contains_hashlist"
    /\ UNCHANGED <<str, encoded, decoded, name, legal, from, to, pack, badlist, arg, flag>>

WriteDifference ==
    /\ pc = "start"
    /\ \E w \in BOOLEAN :
          LET r == write_difference(from, to, w)
          IN  flag' = w /\ pack' = r.pack /\ ret' = r.has_changes
    /\ pc' = "write_difference"
    /\ UNCHANGED <<str, encoded, decoded, name, legal, from, to, badlist, arg>>

MakeUpdatepack ==
    /\ pc = "start"
    /\ pack' = make_updatepack(from, to)
    /\ pc' = "make_updatepack"
    /\ UNCHANGED <<str, encoded, decoded, name, legal, from, to, badlist, arg, flag, ret>>

\* One tree, passed as both arguments.
AddFileBoth ==
    \E p \in NodePaths(from), f \in DiffFiles :
        CountNodes(from) < MaxTreeNodes /\ AddFile("both", p, f)

AddDirBoth ==
    \E p \in NodePaths(from), n \in DirNames :
        CountNodes(from) < MaxTreeNodes /\ AddDir("both", p, n)

NextSame == AddFileBoth \/ AddDirBoth \/ WriteHashlist \/ ContainsHashlist \/ MakeUpdatepack

SpecSame == InitCommon /\ [][NextSame]_vars

\* Two trees.
AddFileFrom ==
    \E p \in NodePaths(from), f \in DiffFiles :
        CountNodes(from) + CountNodes(to) < MaxPairNodes /\ AddFile("from", p, f)

AddDirFrom ==
    \E p \in NodePaths(from), n \in DirNames :
        CountNodes(from) + CountNodes(to) < MaxPairNodes /\ AddDir("from", p, n)

AddFileTo ==
    \E p \in NodePaths(to), f \in DiffFiles :
        CountNodes(from) + CountNodes(to) < MaxPairNodes /\ AddFile("to", p, f)

AddDirTo ==
    \E p \in NodePaths(to), n \in DirNames :
        CountNodes(from) + CountNodes(to) < MaxPairNodes /\ AddDir("to", p, n)

Next ==
    \/ AddFileFrom \/ AddDirFrom \/ AddFileTo \/ AddDirTo
    \/ ContainsHashlist \/ WriteDifference \/ MakeUpdatepack

Spec == InitCommon /\ [][Next]_vars

\* ================================================================== claims
\* ---- what the claims speak of
Range(s) == {s[i] : i \in 1..Len(s)}

\* The portion of s before its first '.', the whole of s when it has none.
BeforeFirstDot(s) ==
    LET k == CHOOSE k \in 0..Len(s) :
                 /\ \A i \in 1..k : s[i] # 46
                 /\ (k = Len(s) \/ s[k + 1] = 46)
    IN  SubSeq(s, 1, k)

AsciiUpper(s) == [i \in 1..Len(s) |-> IF s[i] >= 97 /\ s[i] <= 122 THEN s[i] - 32 ELSE s[i]]

\* Every [file] of a tree: the names of the directories above it (path), the [dir]
\* indices leading to its directory (at), its index there, its name and attributes.
RECURSIVE FilesOf(_, _, _)
FilesOf(t, path, at) ==
    { [path |-> path, at |-> at, i |-> i, name |-> t.file[i].name, node |-> t.file[i]] :
        i \in 1..Len(t.file) }
    \cup UNION { FilesOf(t.dir[i], Append(path, t.dir[i].name), Append(at, i)) :
                   i \in 1..Len(t.dir) }

AllFiles(t) == FilesOf(t, <<>>, <<>>)

\* Every [dir] node below the root has a [file] somewhere below it.
RECURSIVE DirsHoldFiles(_)
DirsHoldFiles(t) ==
    \A i \in 1..Len(t.dir) : AllFiles(t.dir[i]) # {} /\ DirsHoldFiles(t.dir[i])

Empty(t) == t.file = <<>> /\ t.dir = <<>>

\* Every child (file or directory) of every directory of a tree, with the path
\* the duplicate check prints for it and its case-folded name.
RECURSIVE ChildrenOf(_, _, _)
ChildrenOf(t, prefix, at) ==
    { [at |-> at, kind |-> "file", i |-> i, path |-> prefix \o t.file[i].name,
       key |-> to_lower_copy(t.file[i].name)] : i \in 1..Len(t.file) }
    \cup { [at |-> at, kind |-> "dir", i |-> i, path |-> prefix \o t.dir[i].name,
            key |-> to_lower_copy(t.dir[i].name)] : i \in 1..Len(t.dir) }
    \cup UNION { ChildrenOf(t.dir[i], Append(prefix \o t.dir[i].name, 47), Append(at, i)) :
                   i \in 1..Len(t.dir) }

AllChildren(t) == ChildrenOf(t, <<>>, <<>>)

\* Files come before directories in a level's order.
Before(c, d) == (c.kind = "file" /\ d.kind = "dir") \/ (c.kind = d.kind /\ c.i < d.i)

Collides(c, t) == \E d \in AllChildren(t) : d # c /\ d.at = c.at /\ d.key = c.key

Colliding(t) == {c \in AllChildren(t) : Collides(c, t)}

\* The names of all files and directories of a tree.
RECURSIVE AllNames(_)
AllNames(t) ==
    {t.file[i].name : i \in 1..Len(t.file)} \cup {t.dir[i].name : i \in 1..Len(t.dir)}
    \cup UNION {AllNames(t.dir[i]) : i \in 1..Len(t.dir)}

\* What a validation call appended to the accumulator it was given.
Appended == SubSeq(badlist.list, Len(arg.list) + 1, Len(badlist.list))

\* C1: decoding the encoding of any byte sequence gives the sequence back.
C1_RoundTrip == pc = "unencode_binary" => decoded = str

C1_Witness ==
    /\ pc = "unencode_binary"
    /\ {0, 1, 13, 254} \subseteq Range(str)
    /\ Len(encoded) = 2 * Len(str)
    /\ decoded = str

\* C2: a name whose part before the first '.', ASCII-upper-cased, is a reserved
\* device name is never legal, whatever follows the dot and whatever its case.
C2_ReservedStemIllegal ==
    (pc = "addon_filename_legal" /\ AsciiUpper(BeforeFirstDot(name)) \in dos_device_names)
        => legal = FALSE

\* "con.x.x": lower case, two dots after the stem.
C2_Witness ==
    /\ pc = "addon_filename_legal"
    /\ name = <<99, 111, 110, 46, 120, 46, 120>>
    /\ legal = FALSE

\* C3: a tree contains itself, also when a directory has children of the same name.
C3_Reflexive == (pc = "contains_hashlist" /\ from = to) => ret = TRUE

\* C4: the update pack from a tree to itself has an empty removelist and an empty addlist.
C4_SameTreeEmptyPack ==
    (pc = "make_updatepack" /\ from = to) => (Empty(pack.removelist) /\ Empty(pack.addlist))

\* A file named n changed at the directory path p: each tree has exactly one file
\* named n there, and their hashes differ.
Changed(p, n) ==
    LET old == {f \in AllFiles(from) : f.path = p /\ f.name = n}
        new == {f \in AllFiles(to) : f.path = p /\ f.name = n}
    IN  /\ Cardinality(old) = 1
        /\ Cardinality(new) = 1
        /\ \A f \in old, g \in new : file_hash(f.node) # file_hash(g.node)

Listed(list, p, n) == \E f \in AllFiles(list) : f.path = p /\ f.name = n

\* C5: a file whose hash changed is entered in the removelist and in the addlist,
\* at its path.
C5_ChangedFileInBothLists ==
    pc = "make_updatepack" =>
        \A f \in AllFiles(from) :
            Changed(f.path, f.name) =>
                (Listed(pack.removelist, f.path, f.name) /\ Listed(pack.addlist, f.path, f.name))

C5_Witness ==
    /\ pc = "make_updatepack"
    /\ \E f \in AllFiles(from) :
          /\ f.path # <<>>
          /\ Changed(f.path, f.name)
          /\ Listed(pack.removelist, f.path, f.name)
          /\ Listed(pack.addlist, f.path, f.name)

\* The hashlist hl has the shape and the names of data, and each of its files the
\* hash of the file it stands for: file_hash (cached) or the digest of the contents.
RECURSIVE HashlistOf(_, _, _)
HashlistOf(hl, data, cached) ==
    /\ hl.name = data.name
    /\ Len(hl.file) = Len(data.file)
    /\ Len(hl.dir) = Len(data.dir)
    /\ \A i \in 1..Len(data.file) :
          /\ hl.file[i].name = data.file[i].name
          /\ hl.file[i].hash = IF cached THEN file_hash(data.file[i])
                                ELSE md5_base64_digest(data.file[i].contents)
    /\ \A i \in 1..Len(data.dir) : HashlistOf(hl.dir[i], data.dir[i], cached)

\* C6 as stated: every file of the hashlist carries file_hash of its file.
C6_HashlistUsesFileHash == pc = "write_hashlist" => HashlistOf(pack, from, TRUE)

\* C6 amended: every file of the hashlist carries the digest of its file's contents,
\* whether or not the file has a cached hash.
C6_HashlistUsesDigest == pc = "write_hashlist" => HashlistOf(pack, from, FALSE)

\* A file below the root whose cached hash is not the digest of its contents.
C6_Witness ==
    /\ pc = "write_hashlist"
    /\ \E f \in AllFiles(from) :
          /\ f.path # <<>>
          /\ f.node.hash # <<>>
          /\ f.node.hash # md5_base64_digest(f.node.contents)
    /\ HashlistOf(pack, from, FALSE)

Count(s, x) == Cardinality({i \in 1..Len(s) : s[i] = x})

\* C7: in collect mode the duplicate check appends the path of every child that
\* shares its case-folded name with another child of its directory, once per such
\* child, and nothing else; the first child of a group is printed right before the
\* second one.
C7_DuplicatesListedOnce ==
    (pc = "check_case_insensitive_duplicates" /\ ~arg.null) =>
        LET all == AllChildren(from)
            coll == {c \in all : \E d \in all : d # c /\ d.at = c.at /\ d.key = c.key}
            app == Appended
        IN  /\ ~badlist.null
            /\ SubSeq(badlist.list, 1, Len(arg.list)) = arg.list
            /\ Len(app) = Cardinality(coll)
            /\ \A x \in Range(app) \cup {c.path : c \in all} :
                  Count(app, x) = Cardinality({c \in coll : c.path = x})
            /\ \A c \in coll, d \in coll :
                  ( /\ c.at = d.at /\ c.key = d.key /\ Before(c, d)
                    /\ ~\E e \in coll :
                           /\ e.at = c.at /\ e.key = c.key
                           /\ (Before(e, c) \/ (Before(c, e) /\ Before(e, d))) )
                  => \E i \in 1..(Len(app) - 1) : app[i] = c.path /\ app[i + 1] = d.path

\* Three children of one directory share a folded name, a fourth child does not.
C7_Witness ==
    /\ pc = "check_case_insensitive_duplicates"
    /\ ~arg.null
    /\ \E c \in Colliding(from) :
          Cardinality({d \in Colliding(from) : d.at = c.at /\ d.key = c.key}) = 3
    /\ AllChildren(from) # Colliding(from)
    /\ Len(Appended) = 3

\* C8: write_difference returns true exactly when it attached a child, and every
\* directory it attached holds a file; so do the lists of an update pack.
C8_ChangesIffAttached ==
    /\ pc = "write_difference" =>
          /\ ret <=> ~Empty(pack)
          /\ DirsHoldFiles(pack)
          /\ Len(pack.dir) =
                 Cardinality({i \in 1..Len(to.dir) :
                     write_difference(origin_dir_of(from, to.dir[i]), to.dir[i], flag).has_changes})
    /\ pc = "make_updatepack" => (DirsHoldFiles(pack.removelist) /\ DirsHoldFiles(pack.addlist))

\* A changed subdirectory is attached, an unchanged one is left out.
C8_Witness ==
    /\ pc = "write_difference"
    /\ ret
    /\ Len(pack.dir) = 1
    /\ Len(to.dir) = 2
    /\ DirsHoldFiles(pack)

\* C9: check_names_legal returns true exactly when every name of the tree is legal,
\* whatever the accumulator held, and the same with and without an accumulator.
C9_LegalIffNoBadName ==
    pc = "check_names_legal" =>
        /\ ret <=> \A n \in AllNames(from) : addon_filename_legal(n)
        /\ ret = check_names_legal(from, NoList).ret

\* C10: contains_hashlist is the negation of write_difference's result, and the
\* lists of an update pack are empty exactly when the one tree contains the other.
C10_ContainsIffNoDifference ==
    /\ pc = "write_difference" => (contains_hashlist(from, to) <=> ~ret)
    /\ pc = "contains_hashlist" =>
          \A w \in BOOLEAN : ret <=> ~write_difference(from, to, w).has_changes
    /\ pc = "make_updatepack" =>
          /\ Empty(pack.addlist) <=> contains_hashlist(from, to)
          /\ Empty(pack.removelist) <=> contains_hashlist(to, from)

\* "to" is contained in a different "from" through a subdirectory.
C10_Witness ==
    /\ pc = "write_difference"
    /\ ~ret
    /\ from # to
    /\ \E i \in 1..Len(to.dir) : to.dir[i].file # <<>>
    /\ contains_hashlist(from, to)

====
